---------------------------- MODULE Spec2Model ----------------------------
(***************************************************************************)
(* A model of the three chat clients of the benchmark suite (client.py:    *)
(* MCPClient, client2.py: GeminiClient, client3.py: SimpleChatClient), of  *)
(* the MCP session lifecycle of MCPClient and of the two drivers that own  *)
(* a client (client.py async_main, test.py run_client_tests).              *)
(*                                                                         *)
(* Strings are sequences of tokens; a token is either all whitespace       *)
(* (" ", "\n") or carries no leading or trailing whitespace of its own, so *)
(* str.strip and str.join are computed token by token.                     *)
(***************************************************************************)
EXTENDS Integers, Sequences, FiniteSets, TLC

(***************************************************************************)
(* Bounds of the model.                                                    *)
(***************************************************************************)
MaxCands == 2
MaxParts == 2
MaxTok == 1
MaxTools == 2
MaxConnects == 2
MaxCleanups == 2
MaxChatQueries == 2
MaxToolCalls == 3

(***************************************************************************)
(* Python values.                                                          *)
(***************************************************************************)
\* Python's None where a string could stand (part.text of a function-call part).
None == <<"<None>">>

\* No reply, no part and no result yet: the local is unbound.
Unbound == [kind |-> "unbound"]

(***************************************************************************)
(* str.strip() and str.join().                                             *)
(***************************************************************************)
IsSpace(c) == c \in {" ", "\n", "\t"}

RECURSIVE LStrip(_)
LStrip(s) ==
    IF s = <<>> THEN <<>>
    ELSE IF IsSpace(Head(s)) THEN LStrip(Tail(s))
    ELSE s

RECURSIVE RStrip(_)
RStrip(s) ==
    IF s = <<>> THEN <<>>
    ELSE IF IsSpace(s[Len(s)]) THEN RStrip(SubSeq(s, 1, Len(s) - 1))
    ELSE s

\* "\n".join(final_parts).strip(), client.py line 103: the strip.
Strip(s) == RStrip(LStrip(s))

RECURSIVE Join(_, _)
\* sep.join(items), client.py lines 90 and 103.
Join(sep, items) ==
    IF items = <<>> THEN <<>>
    ELSE IF Len(items) = 1 THEN items[1]
    ELSE items[1] \o sep \o Join(sep, Tail(items))

\* The sequences over S of length 0..n.
SeqsUpTo(S, n) == UNION {[1..k -> S] : k \in 0..n}


(***************************************************************************)
(* The local tools of client2.py.  A path is a sequence of components, a   *)
(* component a sequence of tokens (<<"in", ".txt">> is in.txt); a leading  *)
(* component <<"/">> makes the path absolute, <<"~">> is the home          *)
(* directory.  The filesystem maps the absolute paths of its files to      *)
(* their contents.                                                         *)
(***************************************************************************)
Root == <<"/">>
Tilde == <<"~">>
Dot == <<".">>
DotDot == <<"..">>

\* Path.cwd() as the module is imported, client2.py line 15.
ALLOWED_BASE == << <<"work">> >>

\* os.path.expanduser's home directory.
HomeDir == << <<"home">> >>

RECURSIVE ResolveFrom(_, _)
\* Path.resolve(strict=False): "." is dropped, ".." pops (and stays at the root).
ResolveFrom(acc, rest) ==
    IF rest = <<>> THEN acc
    ELSE IF Head(rest) = Dot THEN ResolveFrom(acc, Tail(rest))
    ELSE IF Head(rest) = DotDot
         THEN ResolveFrom(IF acc = <<>> THEN <<>> ELSE SubSeq(acc, 1, Len(acc) - 1),
                          Tail(rest))
    ELSE ResolveFrom(Append(acc, Head(rest)), Tail(rest))

\* Path(os.path.expanduser(file_path)).resolve(strict=False), lines 18-19.
Resolve(file_path) ==
    IF file_path # <<>> /\ Head(file_path) = Tilde
    THEN ResolveFrom(HomeDir, Tail(file_path))
    ELSE IF file_path # <<>> /\ Head(file_path) = Root
    THEN ResolveFrom(<<>>, Tail(file_path))
    ELSE ResolveFrom(ALLOWED_BASE, file_path)

\* Path.is_relative_to(base): base is a prefix of the path.
IsRelativeTo(path, base) ==
    /\ Len(path) >= Len(base)
    /\ SubSeq(path, 1, Len(base)) = base

\* normalize_path: the resolved path, or PermissionError.
normalize_path(file_path) ==
    LET resolved == Resolve(file_path)
    IN  IF ~IsRelativeTo(resolved, ALLOWED_BASE)
        THEN [exc |-> "PermissionError", path |-> resolved]
        ELSE [exc |-> "none", path |-> resolved]

\* bytes.decode('utf-8') fails on the token "\\xff".
IsUtf8(data) == \A i \in 1..Len(data) : data[i] # "\\xff"

\* base64.b64encode(data).decode('ascii').
B64(data) == <<"b64(">> \o data \o <<")">>

\* The values a tool returns: a str, a list of str, or nothing (it raised).
StrVal(s) == [type |-> "str", str |-> s, list |-> <<>>]
ListVal(l) == [type |-> "list", str |-> <<>>, list |-> l]
NoVal == [type |-> "none", str |-> <<>>, list |-> <<>>]

\* A tool's outcome: the exception it raised (or "none"), the value it
\* returned and the filesystem it leaves.
ToolOutcome(e, v, f) == [exc |-> e, value |-> v, fs |-> f]

\* read_file, client2.py lines 24-30.
read_file(file_path, files) ==
    LET np == normalize_path(file_path)
    IN  IF np.exc # "none" THEN ToolOutcome(np.exc, NoVal, files)
        ELSE IF np.path \notin DOMAIN files
        THEN ToolOutcome("FileNotFoundError", NoVal, files)
        ELSE IF IsUtf8(files[np.path])
        THEN ToolOutcome("none", StrVal(files[np.path]), files)
        ELSE ToolOutcome("none", StrVal(B64(files[np.path])), files)

RECURSIVE UniversalNewlines(_)
\* What text mode makes of the data read (Path.read_text, line 35): "\r\n"
\* and a lone "\r" come out as "\n".
UniversalNewlines(data) ==
    IF data = <<>> THEN <<>>
    ELSE IF Head(data) = "\r"
    THEN IF Len(data) >= 2 /\ data[2] = "\n"
         THEN <<"\n">> \o UniversalNewlines(Tail(Tail(data)))
         ELSE <<"\n">> \o UniversalNewlines(Tail(data))
    ELSE <<Head(data)>> \o UniversalNewlines(Tail(data))

\* The file system with file p holding data.
WriteText(files, p, data) ==
    [q \in DOMAIN files \cup {p} |-> IF q = p THEN data ELSE files[q]]

\* write_file, client2.py lines 32-37.
write_file(file_path, content, files) ==
    LET np == normalize_path(file_path)
    IN  IF np.exc # "none" THEN ToolOutcome(np.exc, NoVal, files)
        ELSE LET stored == IF np.path \in DOMAIN files THEN files[np.path] ELSE <<>>
                 existing == UniversalNewlines(stored)
             IN  IF ~IsUtf8(stored)
                 THEN ToolOutcome("UnicodeDecodeError", NoVal, files)
                 ELSE ToolOutcome("none", StrVal(<<"Write successful">>),
                                  WriteText(files, np.path, existing \o content))

\* str(p): the components joined by "/".
PathStr(path) == <<"/">> \o Join(<<"/">>, path)

RECURSIVE SetToSeq(_)
\* The list a directory walk builds of a set of paths.
SetToSeq(S) ==
    IF S = {} THEN <<>>
    ELSE LET x == CHOOSE y \in S : TRUE IN <<x>> \o SetToSeq(S \ {x})

\* The directories of the filesystem: what lies above its files.
Dirs(files) == UNION {{SubSeq(p, 1, k) : k \in 0..(Len(p) - 1)} : p \in DOMAIN files}

\* os.scandir(d): the entries of directory d.
ScanDir(d, files) ==
    {q \in DOMAIN files \cup Dirs(files) :
        Len(q) = Len(d) + 1 /\ IsRelativeTo(q, d)}

RECURSIVE SplitParts(_)
\* A string cut at its "/" separators.
SplitParts(s) ==
    IF \A k \in 1..Len(s) : s[k] # "/" THEN <<s>>
    ELSE LET i == CHOOSE k \in 1..Len(s) :
                      s[k] = "/" /\ \A j \in 1..(k - 1) : s[j] # "/"
         IN  <<SubSeq(s, 1, i - 1)>> \o SplitParts(SubSeq(s, i + 1, Len(s)))

\* The parts pathlib parses a relative glob pattern into: "" and "." are
\* dropped, ".." stays a part.
PatternParts(pattern) ==
    SelectSeq(SplitParts(pattern), LAMBDA part : part # <<>> /\ part # Dot)

\* fnmatch of a name against a pattern part: the part itself, or a leading
\* "*" followed by the end of the name.
Matches(name, part) ==
    \/ name = part
    \/ /\ Head(part) = "*"
       /\ Len(name) >= Len(part) - 1
       /\ SubSeq(name, Len(name) - Len(part) + 2, Len(name)) = Tail(part)

RECURSIVE Select(_, _, _)
\* pathlib's selectors applied from path: ".." steps to the parent, a part
\* with "*" takes the matching entries of the directory, any other part the
\* entry of that name if it exists; before a further part only directories
\* are taken.  The paths selected keep their ".." components; the
\* operating system finds them where the components lead from the root.
Select(path, parts, files) ==
    IF parts = <<>> THEN {path}
    ELSE LET part == Head(parts)
             rest == Tail(parts)
             real == ResolveFrom(<<>>, path)
             Taken(q) == q \in Dirs(files) \/ (rest = <<>> /\ q \in DOMAIN files)
         IN  IF part = DotDot
             THEN Select(Append(path, DotDot), rest, files)
             ELSE IF Head(part) = "*"
             THEN UNION {Select(Append(path, q[Len(q)]), rest, files) :
                            q \in {x \in ScanDir(real, files) :
                                      Matches(x[Len(x)], part) /\ Taken(x)}}
             ELSE IF Taken(Append(real, part))
             THEN Select(Append(path, part), rest, files)
             ELSE {}

\* Path.rglob(pattern): the pattern selected from dirp and from every
\* directory below it.
rglob(dirp, pattern, files) ==
    UNION {Select(d, PatternParts(pattern), files) :
              d \in {q \in Dirs(files) : IsRelativeTo(q, dirp)}}

\* search_file, client2.py lines 39-41: what "*" followed by the extension
\* selects under dirp, as strings.
search_file(extension, search_dir, files) ==
    LET np == normalize_path(search_dir)
    IN  IF np.exc # "none" THEN ToolOutcome(np.exc, NoVal, files)
        ELSE LET hits == rglob(np.path, <<"*">> \o extension, files)
             IN  ToolOutcome("none", ListVal(SetToSeq({PathStr(p) : p \in hits})), files)


(***************************************************************************)
(* The model service's replies (google.genai generate_content).  A reply   *)
(* holds candidates and usage_metadata; a candidate's content holds parts  *)
(* (text parts and function-call parts) or, without parts, a flat text.    *)
(***************************************************************************)
\* The texts a part carries: one with and one without leading whitespace.
Texts == {<<"a">>, <<" ", "a">>}

InTxt == << <<"in", ".txt">> >>
Secret == <<DotDot, <<"secret">> >>

\* The function calls the model asks for, function_call.name and .args: a
\* file read, a read outside the allowed base, a function nobody registers.
Calls ==
    { [name |-> "read_file", args |-> [file_path |-> InTxt]],
      [name |-> "read_file", args |-> [file_path |-> Secret]],
      [name |-> "delete_file", args |-> [file_path |-> InTxt]] }

NoCall == [name |-> "", args |-> <<>>]

\* A part with text only: part.function_call is None.
TextPart(t) == [text |-> t, function_call |-> NoCall]

\* A function-call part: part.text is None.
CallPart(c) == [text |-> None, function_call |-> c]

Parts == {TextPart(t) : t \in Texts} \cup {CallPart(c) : c \in Calls}

\* part.function_call is set (lines 81 and 109; an empty name is falsy enough
\* here: no call of Calls has one).
HasCall(part) == part.function_call # NoCall

\* The candidates with k parts; with none, content.text stands in.
CandsWith(k) ==
    IF k = 0
    THEN {[parts |-> <<>>, text |-> t] : t \in Texts \cup {<<>>}}
    ELSE {[parts |-> ps, text |-> <<>>] : ps \in [1..k -> Parts]}

RECURSIVE SumSeq(_)
SumSeq(q) == IF q = <<>> THEN 0 ELSE Head(q) + SumSeq(Tail(q))

\* How many parts each candidate of a reply has: at most MaxCands candidates
\* and MaxParts parts in all.
Shapes == {sh \in SeqsUpTo(0..MaxParts, MaxCands) : SumSeq(sh) <= MaxParts}

RECURSIVE CandSeqs(_)
CandSeqs(sh) ==
    IF sh = <<>> THEN {<<>>}
    ELSE {<<c>> \o rest : c \in CandsWith(Head(sh)), rest \in CandSeqs(Tail(sh))}

CandLists == UNION {CandSeqs(sh) : sh \in Shapes}

\* usage_metadata of one reply.
Usages == [prompt_token_count : 0..MaxTok, candidates_token_count : 0..MaxTok]

Replies == [candidates : CandLists, usage_metadata : Usages]

\* The reply asks for at least one function call.
WantsTool(reply) ==
    \E i \in 1..Len(reply.candidates) :
        \E j \in 1..Len(reply.candidates[i].parts) :
            HasCall(reply.candidates[i].parts[j])


(***************************************************************************)
(* Python dict values: a dict is a function from its keys, dict.get reads  *)
(* a key or the default, and a value that is no dict has no .get.          *)
(***************************************************************************)
Dict(f) == [py |-> "dict", val |-> f]
NonDict(x) == [py |-> "other", val |-> x]
IsDict(v) == v.py = "dict"
EmptyDict == Dict(<<>>)

\* d.get(key, default) of a dict d.
Get(d, key, default) == IF key \in DOMAIN d.val THEN d.val[key] ELSE default

(***************************************************************************)
(* The tool provider behind the MCP session: its catalog (list_tools) and  *)
(* its answers to call_tool.                                               *)
(***************************************************************************)
\* The tools the provider registers.
ProviderTools == {"read_file", "write_file", "search_file"}

\* A property's schema: a mapping with or without "type", or the JSON
\* schema true, which is no mapping.
PropSchemas ==
    { EmptyDict,
      Dict([type |-> "integer", description |-> "d"]),
      NonDict("true") }

\* inputSchema: "properties" and "required" are each present or left out.
InputSchemas ==
    {Dict([type |-> "object"])}
    \cup {Dict([type |-> "object", properties |-> Dict([file_path |-> v])])
            : v \in PropSchemas}
    \cup {Dict([type |-> "object", required |-> <<"file_path">>])}
    \cup {Dict([properties |-> Dict([file_path |-> v]), required |-> <<"file_path">>])
            : v \in PropSchemas}
    \cup {Dict([properties |-> NonDict("none")])}

\* The descriptors of list_tools: name, description, inputSchema.
ToolDescriptors ==
    [name : ProviderTools, description : {"doc"}, inputSchema : InputSchemas]

\* The catalogs list_tools returns: up to MaxTools descriptors, as they are.
Catalogs == SeqsUpTo(ToolDescriptors, MaxTools)

\* The declaration of one descriptor, client.py lines 49-60; v.get of a
\* property that is no mapping, and .items() of properties that are none,
\* raise AttributeError.
ToolDesc(t) ==
    LET props == Get(t.inputSchema, "properties", EmptyDict)
    IN  IF ~IsDict(props) \/ \E k \in DOMAIN props.val : ~IsDict(props.val[k])
        THEN [exc |-> "AttributeError", desc |-> <<>>]
        ELSE [exc |-> "none",
              desc |->
                [name |-> t.name,
                 description |-> t.description,
                 parameters |->
                   [type |-> Get(t.inputSchema, "type", "object"),
                    properties |->
                      [k \in DOMAIN props.val |->
                         [type |-> Get(props.val[k], "type", "string"),
                          description |-> Get(props.val[k], "description", "")]],
                    required |-> Get(t.inputSchema, "required", <<>>)]]]

\* The loop of lines 47-60 over the catalog: the declarations in order, or
\* the first exception.
ToolDescs(tools) ==
    IF \E i \in 1..Len(tools) : ToolDesc(tools[i]).exc # "none"
    THEN [exc |-> "AttributeError", descs |-> <<>>]
    ELSE [exc |-> "none", descs |-> [i \in 1..Len(tools) |-> ToolDesc(tools[i]).desc]]

\* The raw text of a tool response with what json.loads makes of it:
\* "invalid" (it raises), or the items of a JSON list of objects, each with
\* its "text" or without one.
PlainRaw(s) == [str |-> s, json |-> "invalid", items |-> <<>>]
ItemsRaw(s, its) == [str |-> s, json |-> "list", items |-> its]
JsonItem(t) == Dict([text |-> t])

RawOutputs ==
    { ItemsRaw(<<"[{\"text\": \"a.py\"}, {\"text\": \"b.py\"}]">>,
               <<JsonItem(<<"a.py">>), JsonItem(<<"b.py">>)>>) }

\* A content item: TextContent carries text, other content has no text
\* attribute.
TextContent(raw) == [type |-> "text", text |-> raw]

\* What call_tool returns for a registered tool: the tool's output (text,
\* or no content at all), or the tool's failure reported as error content.
ToolResponses ==
    {[content |-> <<TextContent(r)>>, isError |-> FALSE] : r \in RawOutputs}
    \cup {[content |-> <<>>, isError |-> FALSE],
          [content |-> <<TextContent(PlainRaw(<<"Error executing tool">>))>>,
           isError |-> TRUE]}

\* What call_tool returns for a name the provider does not register: the
\* protocol's error content.
UnknownToolResponse(name) ==
    [content |-> <<TextContent(PlainRaw(<<"Unknown tool: ", name>>))>>,
     isError |-> TRUE]

\* The answers of the provider to call_tool(name, args).
ProviderAnswers(name) ==
    IF name \in ProviderTools THEN ToolResponses ELSE {UnknownToolResponse(name)}

\* getattr(tool_response.content[0], 'text', ''), client.py line 87.
RawOf(item) == IF item.type = "text" THEN item.text ELSE PlainRaw(<<>>)

\* Lines 88-92: the "text" of the items joined by newlines when the raw
\* text parses as a list of objects, the raw text otherwise.
ListResult(raw) ==
    IF raw.json = "list" /\ \A i \in 1..Len(raw.items) : IsDict(raw.items[i])
    THEN Join(<<"\n">>, [i \in 1..Len(raw.items) |-> Get(raw.items[i], "text", <<>>)])
    ELSE raw.str

\* f"[Called {name}: {list_result}]", line 94.
CalledText(name, list_result) == <<"[Called ", name, ": ">> \o list_result \o <<"]">>


(***************************************************************************)
(* process_query of the three clients.  One action per stretch of code     *)
(* between two awaited exchanges (the provider, the model service).        *)
(***************************************************************************)
VARIABLES
    client,         \* the class of the client instance
    pc,             \* where process_query stands
    exc,            \* the exception process_query raised, or "none"
    catalog,        \* MCPClient: the catalog list_tools returned
    tool_descs,     \* MCPClient: the declarations sent with the request
    response,       \* MCPClient: the reply being walked
    ci, pi,         \* MCPClient: the candidate and the part the walk is at
    final_parts,    \* MCPClient: final_parts
    prompt_tokens,  \* the local prompt_tokens
    resp_tokens,    \* the local completion_tokens / resp_tokens
    msg,            \* GeminiClient: candidates[0].content.parts[0]
    fname,          \* GeminiClient: the function called
    tool_result,    \* GeminiClient: its result
    out,            \* the dict process_query returned
    fs,             \* the files the local tools work on
    trips,          \* history: the usage of each reply received in this query
    toolReplies,    \* history: how many of these replies asked for a tool
    calls,          \* history: the tools invoked in this query, and what came of it
    requests,       \* history: the contents of each model request
    first,          \* history: the first reply's text and whether it is all text
    earlier         \* history: an earlier query of this instance was told of tokens

qvars == <<client, pc, exc, catalog, tool_descs, response, ci, pi, final_parts,
           prompt_tokens, resp_tokens, msg, fname, tool_result, out, fs,
           trips, toolReplies, calls, requests, first, earlier>>

Clients == {"MCPClient", "GeminiClient", "SimpleChatClient"}

(***************************************************************************)
(* The state of one MCPClient and of the driver that owns it.              *)
(***************************************************************************)
VARIABLES
    driver,         \* who owns the client: async_main, run_client_tests, any caller
    dpc,            \* where the driver stands
    target,         \* the argument of connect_to_server
    exit_stack,     \* self.exit_stack: the contexts entered, in order
    session,        \* self.session: None, or the session entered
    released,       \* every resource acquired so far -> how often it was released
    conn_exc,       \* the exception of the last connect_to_server, or "none"
    pending,        \* the exception on its way out of the driver, or "none"
    before,         \* history: exit_stack, session and resources as connect began
    last_op,        \* history: the method that ran last
    n_connects,     \* the calls of connect_to_server so far
    n_cleanups,     \* the calls of cleanup so far
    n_queries,      \* the queries the driver has run
    server_params,  \* the command and arguments the target resolved to
    handshakes      \* history: the calls of session.initialize() that returned

cvars == <<driver, dpc, target, exit_stack, session, released, conn_exc,
           pending, before, last_op, n_connects, n_cleanups, n_queries,
           server_params, handshakes>>

(***************************************************************************)
(* The state of a chat_loop, of the local tools called on their own, and   *)
(* of run_client_tests.                                                    *)
(***************************************************************************)
VARIABLES
    line,           \* chat_loop: what input() returned
    loop,           \* chat_loop: where the loop stands
    shown,          \* chat_loop: what the last iteration printed
    n_chat,         \* chat_loop: the iterations so far
    tool_op,        \* local tools: the last call, with what it found and returned
    appended,       \* local tools, history: path -> the contents written, in order
    module,         \* run_client_tests: module_name
    hpc,            \* run_client_tests: where it stands
    test_i,         \* run_client_tests: the index of the test in TESTS
    results,        \* run_client_tests: results
    thrown,         \* run_client_tests, history: what each test's query or check raised
    left_by         \* run_client_tests, history: the exception that ended it, or "none"

chvars == <<line, loop, shown, n_chat>>
tvars == <<tool_op, appended>>
rvars == <<module, hpc, test_i, results, thrown, left_by>>
hvars == <<chvars, tvars, rvars>>

vars == <<qvars, cvars, hvars>>

NoSession == "None"
NoTarget == <<>>

\* A client just constructed, lines 17-20: no session, an empty exit stack.
NewClient ==
    /\ exit_stack = <<>>
    /\ session = NoSession
    /\ released = <<>>
    /\ conn_exc = "none"
    /\ pending = "none"
    /\ before = Unbound
    /\ last_op = "__init__"
    /\ n_connects = 0
    /\ n_cleanups = 0
    /\ n_queries = 0
    /\ target = NoTarget
    /\ server_params = Unbound
    /\ handshakes = 0

\* The specification of the queries leaves the lifecycle aside.
CIdle ==
    /\ driver = "any"
    /\ dpc = "free"
    /\ NewClient

\* input() has returned no line.
NoLine == <<"<none>">>

\* No chat_loop runs.
ChatIdle ==
    /\ line = NoLine
    /\ loop = "none"
    /\ shown = "none"
    /\ n_chat = 0

\* No local tool was called on its own.
ToolsIdle ==
    /\ tool_op = Unbound
    /\ appended = <<>>

\* run_client_tests does not run.
HarnessIdle ==
    /\ module = ""
    /\ hpc = "none"
    /\ test_i = 0
    /\ results = <<>>
    /\ thrown = <<>>
    /\ left_by = "none"

HIdle == ChatIdle /\ ToolsIdle /\ HarnessIdle

\* The files the local tools find: in.txt and a.py in the working
\* directory, one file outside it.
InitFiles ==
    (<< <<"work">>, <<"in", ".txt">> >> :> <<"FOO">>)
    @@ (<< <<"work">>, <<"a", ".py">> >> :> <<"x">>)
    @@ (<< <<"secret">> >> :> <<"s">>)

\* The request of the user's query, and the follow-up of a tool result:
\* json.dumps({"name": fname, "result": result}), client2.py line 128.
QueryContent == [name |-> "", result |-> NoVal]

\* The follow-up request without the result of the call.
FollowContent_NoResult(n, r) == [name |-> n, result |-> NoVal]

\* json.dumps({"name": fname, "result": result}), client2.py line 128.
FollowContent(n, r) == [name |-> n, result |-> r]

NoUsage == -1

\* One tool invocation: the name asked for, the exception the invocation
\* raised into process_query ("none": it returned) and the result it was
\* turned into.
Invocation(n, e, r) == [name |-> n, exc |-> e, result |-> r]

\* The locals of a query that has not bound them.
FreshLocals ==
    /\ exc' = "none"
    /\ catalog' = <<>>
    /\ tool_descs' = <<>>
    /\ response' = Unbound
    /\ ci' = 0
    /\ pi' = 0
    /\ final_parts' = <<>>
    /\ prompt_tokens' = NoUsage
    /\ resp_tokens' = NoUsage
    /\ msg' = Unbound
    /\ fname' = ""
    /\ tool_result' = NoVal
    /\ out' = Unbound
    /\ trips' = <<>>
    /\ toolReplies' = 0
    /\ calls' = <<>>
    /\ requests' = <<>>
    /\ first' = Unbound

QInit ==
    /\ client \in Clients
    /\ pc = "idle"
    /\ exc = "none"
    /\ catalog = <<>>
    /\ tool_descs = <<>>
    /\ response = Unbound
    /\ ci = 0
    /\ pi = 0
    /\ final_parts = <<>>
    /\ prompt_tokens = NoUsage
    /\ resp_tokens = NoUsage
    /\ msg = Unbound
    /\ fname = ""
    /\ tool_result = NoVal
    /\ out = Unbound
    /\ fs = InitFiles
    /\ trips = <<>>
    /\ toolReplies = 0
    /\ calls = <<>>
    /\ requests = <<>>
    /\ first = Unbound
    /\ earlier = FALSE

\* process_query is entered: by chat_loop or run_single, one query at a time.
BeginQuery ==
    /\ pc \in {"idle", "done", "raised"}
    /\ pc' = IF client = "MCPClient" THEN "list_tools" ELSE "generate"
    /\ FreshLocals
    /\ earlier' = (earlier \/ \E i \in 1..Len(trips) :
                                 \/ trips[i].prompt_token_count > 0
                                 \/ trips[i].candidates_token_count > 0)
    /\ UNCHANGED <<client, fs>>
    /\ UNCHANGED <<cvars, hvars>>

\* process_query raises e: its locals are gone with its frame.
Raise(e) ==
    /\ pc' = "raised"
    /\ exc' = e
    /\ out' = Unbound


\* The usage dict of counters that were kept on the instance across queries.
UsageDict_CountsEarlier(p, r) ==
    [prompt_token_count |-> p + (IF earlier THEN 1 ELSE 0),
     response_token_count |-> r + (IF earlier THEN 1 ELSE 0)]

\* The usage_metadata dict of the returned value.
UsageDict(p, r) == [prompt_token_count |-> p, response_token_count |-> r]

\* The dict process_query returns: text and usage_metadata, nothing else.
ResultDict(text, p, r) == [text |-> text, usage_metadata |-> UsageDict(p, r)]

\* The whole text of a reply: its text parts and flat texts, in order.
RECURSIVE TextsOfParts(_)
TextsOfParts(ps) ==
    IF ps = <<>> THEN <<>>
    ELSE (IF HasCall(Head(ps)) THEN <<>> ELSE <<Head(ps).text>>)
         \o TextsOfParts(Tail(ps))

RECURSIVE TextsOfCands(_)
TextsOfCands(cs) ==
    IF cs = <<>> THEN <<>>
    ELSE (IF Head(cs).parts = <<>>
          THEN (IF Head(cs).text = <<>> THEN <<>> ELSE <<Head(cs).text>>)
          ELSE TextsOfParts(Head(cs).parts))
         \o TextsOfCands(Tail(cs))

\* What is remembered of the first reply of a query.
FirstOf(reply) ==
    [textOnly |-> ~WantsTool(reply),
     texts |-> IF WantsTool(reply) THEN <<>> ELSE TextsOfCands(reply.candidates)]

RECURSIVE Walk(_, _, _, _)
\* The loops of client.py lines 76-101 from candidate i, part j on, up to
\* the next function call (where call_tool is awaited) or the end.
Walk(cands, i, j, acc) ==
    IF i > Len(cands) THEN [at |-> "end", ci |-> i, pi |-> j, final_parts |-> acc]
    ELSE IF cands[i].parts = <<>>
    THEN Walk(cands, i + 1, 1,
              IF cands[i].text # <<>> THEN Append(acc, cands[i].text) ELSE acc)
    ELSE IF j > Len(cands[i].parts) THEN Walk(cands, i + 1, 1, acc)
    ELSE IF HasCall(cands[i].parts[j])
    THEN [at |-> "call", ci |-> i, pi |-> j, final_parts |-> acc]
    ELSE IF cands[i].parts[j].text # None /\ cands[i].parts[j].text # <<>>
    THEN Walk(cands, i, j + 1, Append(acc, cands[i].parts[j].text))
    ELSE Walk(cands, i, j + 1, acc)

\* The join of line 103 with its strip() left out.
FinalText_Unstripped(parts) == Join(<<"\n">>, parts)

\* "\n".join(final_parts).strip(), line 103.
FinalText(parts) == Strip(Join(<<"\n">>, parts))

\* The walk goes on from (i, j): to the next call_tool, or to the return of
\* lines 103-110.
MCPContinue(cands, i, j, acc, p, r) ==
    LET w == Walk(cands, i, j, acc)
    IN  /\ ci' = w.ci
        /\ pi' = w.pi
        /\ final_parts' = w.final_parts
        /\ IF w.at = "call"
           THEN /\ pc' = "call_tool"
                /\ out' = Unbound
           ELSE /\ pc' = "done"
                /\ out' = ResultDict(FinalText(w.final_parts), p, r)

\* MCPClient, lines 46-62: list_tools answers with one of the catalogs, and
\* the declarations are built from it.
ListToolsFrom(catalogs) ==
    /\ client = "MCPClient"
    /\ pc = "list_tools"
    /\ \E tools \in catalogs :
         LET td == ToolDescs(tools)
         IN  /\ catalog' = tools
             /\ IF td.exc # "none"
                THEN /\ Raise(td.exc)
                     /\ UNCHANGED tool_descs
                ELSE /\ tool_descs' = td.descs
                     /\ pc' = "generate"
                     /\ UNCHANGED <<exc, out>>
    /\ UNCHANGED <<client, response, ci, pi, final_parts, prompt_tokens,
                   resp_tokens, msg, fname, tool_result, fs, trips, toolReplies,
                   calls, requests, first>>

\* The catalogs a query meets: a well-formed one, and one whose property
\* is no mapping.
QueryCatalogs ==
    { <<[name |-> "read_file", description |-> "doc",
         inputSchema |-> Dict([type |-> "object",
                               properties |-> Dict([file_path |-> EmptyDict])])]>>,
      <<[name |-> "read_file", description |-> "doc",
         inputSchema |-> Dict([type |-> "object",
                               properties |-> Dict([file_path |-> NonDict("true")])])]>> }

MCPListTools ==
    /\ ListToolsFrom(QueryCatalogs)
    /\ UNCHANGED <<earlier, cvars, hvars>>

\* MCPClient, line 46: the session fails under list_tools.
MCPListToolsFails ==
    /\ client = "MCPClient"
    /\ pc = "list_tools"
    /\ Raise("TransportError")
    /\ UNCHANGED <<client, catalog, tool_descs, response, ci, pi, final_parts,
                   prompt_tokens, resp_tokens, msg, fname, tool_result, fs,
                   trips, toolReplies, calls, requests, first>>
    /\ UNCHANGED <<earlier, cvars, hvars>>

\* MCPClient, lines 65-103: the reply of generate_content, its usage, and
\* the walk over its candidates up to the first call_tool.
MCPModelReply ==
    /\ client = "MCPClient"
    /\ pc = "generate"
    /\ \E reply \in Replies :
         /\ response' = reply
         /\ prompt_tokens' = reply.usage_metadata.prompt_token_count
         /\ resp_tokens' = reply.usage_metadata.candidates_token_count
         /\ trips' = Append(trips, reply.usage_metadata)
         /\ toolReplies' = toolReplies + (IF WantsTool(reply) THEN 1 ELSE 0)
         /\ first' = FirstOf(reply)
         /\ MCPContinue(reply.candidates, 1, 1, <<>>,
                        reply.usage_metadata.prompt_token_count,
                        reply.usage_metadata.candidates_token_count)
    /\ requests' = Append(requests, QueryContent)
    /\ UNCHANGED <<client, exc, catalog, tool_descs, msg, fname, tool_result, fs, calls>>
    /\ UNCHANGED <<earlier, cvars, hvars>>

\* Lines 86-94: call_tool returns; its first content item becomes the
\* "[Called ...]" text, and the walk goes on.
MCPToolReturns ==
    /\ client = "MCPClient"
    /\ pc = "call_tool"
    /\ LET call == response.candidates[ci].parts[pi].function_call
       IN  \E answer \in ProviderAnswers(call.name) :
             IF answer.content = <<>>
             THEN /\ Raise("IndexError")
                  /\ calls' = Append(calls, Invocation(call.name, "IndexError", NoVal))
                  /\ UNCHANGED <<ci, pi, final_parts>>
             ELSE LET called == CalledText(call.name,
                                           ListResult(RawOf(answer.content[1])))
                  IN  /\ MCPContinue(response.candidates, ci, pi + 1,
                                     Append(final_parts, called),
                                     prompt_tokens, resp_tokens)
                      /\ calls' = Append(calls,
                                         Invocation(call.name, "none", StrVal(called)))
                      /\ UNCHANGED exc
    /\ UNCHANGED <<client, catalog, tool_descs, response, prompt_tokens, resp_tokens,
                   msg, fname, tool_result, fs, trips, toolReplies, requests, first>>
    /\ UNCHANGED <<earlier, cvars, hvars>>

\* Line 86: the transport breaks under call_tool.
MCPToolFails ==
    /\ client = "MCPClient"
    /\ pc = "call_tool"
    /\ calls' = Append(calls,
                       Invocation(response.candidates[ci].parts[pi].function_call.name,
                                  "TransportError", NoVal))
    /\ Raise("TransportError")
    /\ UNCHANGED <<client, catalog, tool_descs, response, ci, pi, final_parts,
                   prompt_tokens, resp_tokens, msg, fname, tool_result, fs,
                   trips, toolReplies, requests, first>>
    /\ UNCHANGED <<earlier, cvars, hvars>>

\* generate_content raises (quota, authentication, a malformed request):
\* lines 65 of client.py, 94 and 126 of client2.py, 24 of client3.py.
ModelFails ==
    /\ pc \in {"generate", "follow"}
    /\ Raise("ClientError")
    /\ UNCHANGED <<client, catalog, tool_descs, response, ci, pi, final_parts,
                   prompt_tokens, resp_tokens, msg, fname, tool_result, fs,
                   trips, toolReplies, calls, requests, first>>
    /\ UNCHANGED <<earlier, cvars, hvars>>


\* The functions GeminiClient dispatches to, lines 115-120.
LocalFunctions == {"read_file", "write_file", "search_file"}

\* Lines 115-122 without the final else: a name outside the three raises.
Dispatch_UnknownRaises(call, files) ==
    IF call.name = "read_file" THEN read_file(call.args.file_path, files)
    ELSE ToolOutcome("KeyError", NoVal, files)

\* GeminiClient, lines 115-122: the local function behind fname, called
\* with **args; a call the signature does not take raises TypeError.
Dispatch(call, files) ==
    IF call.name = "read_file"
    THEN IF DOMAIN call.args = {"file_path"}
         THEN read_file(call.args.file_path, files)
         ELSE ToolOutcome("TypeError", NoVal, files)
    ELSE IF call.name = "write_file"
    THEN IF DOMAIN call.args = {"file_path", "content"}
         THEN write_file(call.args.file_path, call.args.content, files)
         ELSE ToolOutcome("TypeError", NoVal, files)
    ELSE IF call.name = "search_file"
    THEN IF DOMAIN call.args = {"extension"}
         THEN search_file(call.args.extension, <<Dot>>, files)
         ELSE IF DOMAIN call.args = {"extension", "search_dir"}
         THEN search_file(call.args.extension, call.args.search_dir, files)
         ELSE ToolOutcome("TypeError", NoVal, files)
    ELSE ToolOutcome("none", StrVal(<<"Unknown function: ", call.name>>), files)

\* response.candidates[0].content.parts[0] can be read (client2.py lines 106
\* and 138, client3.py line 35).
HasFirstPart(reply) ==
    /\ reply.candidates # <<>>
    /\ reply.candidates[1].parts # <<>>

\* The exception of candidates[0].content.parts[0] where it cannot.
FirstPartError(reply) ==
    IF reply.candidates = <<>> THEN "IndexError" ELSE "TypeError"

\* What client2.py and client3.py read of a reply: its usage and its first
\* candidate's first part (with what the histories keep of it).
HeadOf(reply) ==
    [usage_metadata |-> reply.usage_metadata,
     hasPart |-> HasFirstPart(reply),
     error |-> FirstPartError(reply),
     part |-> IF HasFirstPart(reply) THEN reply.candidates[1].parts[1]
              ELSE TextPart(<<>>),
     wantsTool |-> WantsTool(reply),
     first |-> FirstOf(reply)]

ReplyHeads == {HeadOf(reply) : reply \in Replies}

\* The same of a follow-up reply, which is not the first.
FollowHeads == {[h EXCEPT !.first = Unbound] : h \in ReplyHeads}

\* Lines 135-136 with "=" for "+=".
AddUsage_Overwrite(n, more) == more

\* The follow-up's counts added to the first reply's, lines 135-136.
AddUsage(n, more) == n + more

\* GeminiClient, lines 94-123 and 139-148: the first reply; a function call
\* runs the local tool, a text part is the answer.
GeminiModelReply ==
    /\ client = "GeminiClient"
    /\ pc = "generate"
    /\ \E reply \in ReplyHeads :
         /\ prompt_tokens' = reply.usage_metadata.prompt_token_count
         /\ resp_tokens' = reply.usage_metadata.candidates_token_count
         /\ trips' = Append(trips, reply.usage_metadata)
         /\ toolReplies' = toolReplies + (IF reply.wantsTool THEN 1 ELSE 0)
         /\ first' = reply.first
         /\ IF ~reply.hasPart
            THEN /\ Raise(reply.error)
                 /\ UNCHANGED <<msg, fname, tool_result, fs, calls>>
            ELSE LET part == reply.part
                     done == Dispatch(part.function_call, fs)
                 IN  /\ msg' = part
                     /\ IF ~HasCall(part)
                        THEN /\ pc' = "done"
                             /\ out' = ResultDict(part.text,
                                         reply.usage_metadata.prompt_token_count,
                                         reply.usage_metadata.candidates_token_count)
                             /\ UNCHANGED <<exc, fname, tool_result, fs, calls>>
                        ELSE /\ fname' = part.function_call.name
                             /\ calls' = Append(calls,
                                  Invocation(part.function_call.name, done.exc,
                                             done.value))
                             /\ IF done.exc # "none"
                                THEN /\ Raise(done.exc)
                                     /\ UNCHANGED <<tool_result, fs>>
                                ELSE /\ tool_result' = done.value
                                     /\ fs' = done.fs
                                     /\ pc' = "follow"
                                     /\ UNCHANGED <<exc, out>>
    /\ requests' = Append(requests, QueryContent)
    /\ UNCHANGED <<client, catalog, tool_descs, response, ci, pi, final_parts>>
    /\ UNCHANGED <<earlier, cvars, hvars>>

\* GeminiClient, lines 126-148: the follow-up request carrying the tool's
\* result, the usage added, and the answer read off the follow-up.
GeminiFollowReply ==
    /\ client = "GeminiClient"
    /\ pc = "follow"
    /\ requests' = Append(requests, FollowContent(fname, tool_result))
    /\ \E follow \in FollowHeads :
         LET p == AddUsage(prompt_tokens, follow.usage_metadata.prompt_token_count)
             r == AddUsage(resp_tokens, follow.usage_metadata.candidates_token_count)
         IN  /\ prompt_tokens' = p
             /\ resp_tokens' = r
             /\ trips' = Append(trips, follow.usage_metadata)
             /\ toolReplies' = toolReplies + (IF follow.wantsTool THEN 1 ELSE 0)
             /\ IF ~follow.hasPart
                THEN Raise(follow.error)
                ELSE /\ pc' = "done"
                     /\ out' = ResultDict(follow.part.text, p, r)
                     /\ UNCHANGED exc
    /\ UNCHANGED <<client, catalog, tool_descs, response, ci, pi, final_parts, msg,
                   fname, tool_result, fs, calls, first>>
    /\ UNCHANGED <<earlier, cvars, hvars>>

\* SimpleChatClient, lines 24-43: one reply, its usage and its first part's
\* text.
SimpleModelReply ==
    /\ client = "SimpleChatClient"
    /\ pc = "generate"
    /\ \E reply \in ReplyHeads :
         /\ prompt_tokens' = reply.usage_metadata.prompt_token_count
         /\ resp_tokens' = reply.usage_metadata.candidates_token_count
         /\ trips' = Append(trips, reply.usage_metadata)
         /\ toolReplies' = toolReplies + (IF reply.wantsTool THEN 1 ELSE 0)
         /\ first' = reply.first
         /\ IF ~reply.hasPart
            THEN Raise(reply.error)
            ELSE /\ pc' = "done"
                 /\ out' = ResultDict(reply.part.text,
                                      reply.usage_metadata.prompt_token_count,
                                      reply.usage_metadata.candidates_token_count)
                 /\ UNCHANGED exc
    /\ requests' = Append(requests, QueryContent)
    /\ UNCHANGED <<client, catalog, tool_descs, response, ci, pi, final_parts, msg,
                   fname, tool_result, fs, calls>>
    /\ UNCHANGED <<earlier, cvars, hvars>>

QNext ==
    \/ BeginQuery
    \/ MCPListTools
    \/ MCPListToolsFails
    \/ MCPModelReply
    \/ MCPToolReturns
    \/ MCPToolFails
    \/ GeminiModelReply
    \/ GeminiFollowReply
    \/ SimpleModelReply
    \/ ModelFails

Init == QInit /\ CIdle /\ HIdle

Spec == Init /\ [][QNext]_vars


(***************************************************************************)
(* Properties of process_query.                                            *)
(***************************************************************************)
RECURSIVE SumPrompt(_)
SumPrompt(us) ==
    IF us = <<>> THEN 0 ELSE Head(us).prompt_token_count + SumPrompt(Tail(us))

RECURSIVE SumCandidates(_)
SumCandidates(us) ==
    IF us = <<>> THEN 0 ELSE Head(us).candidates_token_count + SumCandidates(Tail(us))

\* sub occurs in s as a run of consecutive tokens.
Contains(s, sub) ==
    \E k \in 0..(Len(s) - Len(sub)) : SubSeq(s, k + 1, k + Len(sub)) = sub

\* C1: whatever the client and the number of round-trips of a query, the
\* counts process_query returns are the sums of the counts of the replies
\* received in that query.
C1_UsageIsSumOfTrips ==
    pc = "done" =>
        /\ out.usage_metadata.prompt_token_count = SumPrompt(trips)
        /\ out.usage_metadata.response_token_count = SumCandidates(trips)

\* A query of two round-trips, both with counts above zero, has returned.
C1_Witness ==
    /\ pc = "done"
    /\ Len(trips) = 2
    /\ trips[1].prompt_token_count > 0
    /\ trips[2].prompt_token_count > 0
    /\ trips[1].candidates_token_count > 0
    /\ out.usage_metadata.prompt_token_count = 2

\* C2 as stated: a first reply of text only is answered after one round-trip
\* with the reply's text unchanged, whatever its candidates, parts and
\* whitespace, and with that reply's usage.
C2_TextReturnedVerbatim ==
    (pc = "done" /\ first.textOnly) =>
        /\ Len(trips) = 1
        /\ out.text = Join(<<"\n">>, first.texts)
        /\ out.usage_metadata = UsageDict(trips[1].prompt_token_count,
                                          trips[1].candidates_token_count)

\* C2 amended: after a first reply of text only, process_query makes one
\* round-trip and no tool call; where it returns, the usage is that reply's
\* and the text is, for MCPClient, the reply's non-empty texts joined by
\* newlines and stripped, and for the other clients the text of the first
\* part of the first candidate, unchanged.
C2_TextOnlyReply ==
    (pc \in {"done", "raised"} /\ first # Unbound /\ first.textOnly) =>
        /\ Len(trips) = 1
        /\ Len(requests) = 1
        /\ calls = <<>>
        /\ pc = "done" =>
             /\ out.usage_metadata = UsageDict(trips[1].prompt_token_count,
                                               trips[1].candidates_token_count)
             /\ out.text = IF client = "MCPClient"
                           THEN Strip(Join(<<"\n">>, first.texts))
                           ELSE first.texts[1]

\* MCPClient has answered a reply of two text parts, one with leading
\* whitespace.
C2_Witness ==
    /\ client = "MCPClient"
    /\ pc = "done"
    /\ first.textOnly
    /\ Len(first.texts) = 2
    /\ first.texts[1] = <<" ", "a">>
    /\ out.text = <<"a", "\n", " ", "a">>

\* C3: MCPClient follows a tool call with a second model request that
\* carries the tool's name and result; the query makes two round-trips and
\* returns the sum of both usages.
C3_MCPToolCallHasFollowUp ==
    (client = "MCPClient" /\ pc = "done" /\ calls # <<>>) =>
        /\ Len(trips) = 2
        /\ Len(requests) = 2
        /\ requests[2].name = calls[1].name
        /\ out.usage_metadata.prompt_token_count = SumPrompt(trips)

\* C4: when every reply of a query asks for a tool, the result says that it
\* is degraded: it carries more than a text and the usage.
C4_ToolLoopEndsDegraded ==
    (/\ pc = "done"
     /\ client \in {"MCPClient", "GeminiClient"}
     /\ calls # <<>>
     /\ toolReplies = Len(trips)) =>
        DOMAIN out \ {"text", "usage_metadata"} # {}

\* The name is none the client's side can run.
UnknownTo(c, name) ==
    IF c = "MCPClient" THEN name \notin ProviderTools ELSE name \notin LocalFunctions

\* The text an unknown name is turned into.
UnknownText(c, name) ==
    IF c = "MCPClient" THEN CalledText(name, <<"Unknown tool: ", name>>)
    ELSE <<"Unknown function: ", name>>

C6_ToolFailureAbsorbed ==
    \A i \in 1..Len(calls) :
        ~UnknownTo(client, calls[i].name) => calls[i].exc = "none"


(***************************************************************************)
(* MCPClient.connect_to_server and cleanup, and the drivers: async_main of *)
(* client.py, run_client_tests of test.py, and any caller of the methods.  *)
(* Targets are strings character by character.                             *)
(***************************************************************************)
\* s.endswith(suffix).
EndsWith(str, suffix) ==
    /\ Len(str) >= Len(suffix)
    /\ SubSeq(str, Len(str) - Len(suffix) + 1, Len(str)) = suffix

FsMcpServer == <<"f", "s", "-", "m", "c", "p", "-", "s", "e", "r", "v", "e", "r">>
DotPy == <<".", "p", "y">>
DotJs == <<".", "j", "s">>

\* SERVER_SCRIPT, test.py line 43: "server.py".
SERVER_SCRIPT == <<"s", "e", "r", "v", "e", "r">> \o DotPy

\* The targets tried: the alias, scripts of both kinds, the alias with an
\* extension, and targets of no recognized form.
Targets ==
    { FsMcpServer,
      SERVER_SCRIPT,
      <<"t">> \o DotJs,
      FsMcpServer \o DotPy,
      <<"t", "o", "o", "l", ".", "r", "b">>,
      <<"p", "y">>,
      DotPy \o <<"c">>,
      <<>> }

\* Lines 24-31 with the alias recognized by its beginning.
ResolveTarget_AliasPrefix(path) ==
    IF Len(path) >= Len(FsMcpServer) /\ SubSeq(path, 1, Len(FsMcpServer)) = FsMcpServer
    THEN [exc |-> "none", command |-> "fs-mcp-server", args |-> <<>>]
    ELSE IF EndsWith(path, DotPy)
    THEN [exc |-> "none", command |-> "python", args |-> <<path>>]
    ELSE IF EndsWith(path, DotJs)
    THEN [exc |-> "none", command |-> "node", args |-> <<path>>]
    ELSE [exc |-> "ValueError", command |-> "", args |-> <<>>]

\* Lines 24-31 with the final else taken for a Python script.
ResolveTarget_DefaultsToPython(path) ==
    IF path = FsMcpServer
    THEN [exc |-> "none", command |-> "fs-mcp-server", args |-> <<>>]
    ELSE IF EndsWith(path, DotJs)
    THEN [exc |-> "none", command |-> "node", args |-> <<path>>]
    ELSE [exc |-> "none", command |-> "python", args |-> <<path>>]

\* Lines 24-31: the command and arguments of a target, or ValueError.
ResolveTarget(path) ==
    IF path = FsMcpServer
    THEN [exc |-> "none", command |-> "fs-mcp-server", args |-> <<>>]
    ELSE IF EndsWith(path, DotPy)
    THEN [exc |-> "none", command |-> "python", args |-> <<path>>]
    ELSE IF EndsWith(path, DotJs)
    THEN [exc |-> "none", command |-> "node", args |-> <<path>>]
    ELSE [exc |-> "ValueError", command |-> "", args |-> <<>>]

\* TESTS, test.py lines 46-80: five tests.
NumTests == 5

\* What the client holds as connect_to_server is entered.
Snapshot == [exit_stack |-> exit_stack, session |-> session, released |-> released]

\* A driver that catches what connect_to_server raises and goes on.
ConnectFails_Swallowed(e) ==
    /\ conn_exc' = e
    /\ dpc' = CASE driver = "async_main" -> "chat_loop"
                [] driver = "run_client_tests" -> "tests"
                [] OTHER -> "free"
    /\ pending' = "none"

\* connect_to_server raises e.  async_main goes to its finally with it
\* (lines 138-142); run_client_tests has no handler, and e leaves it (test.py
\* line 131); any other caller is left to deal with it.
ConnectFails(e) ==
    /\ conn_exc' = e
    /\ dpc' = CASE driver = "async_main" -> "finally"
                [] driver = "run_client_tests" -> "exit"
                [] OTHER -> "free"
    /\ pending' = IF driver = "any" THEN "none" ELSE e

\* connect_to_server is called: by async_main with its argument, by
\* run_client_tests with SERVER_SCRIPT.
CallConnect ==
    /\ \/ dpc = "start"
       \/ dpc = "free" /\ n_connects < MaxConnects
    /\ \E t \in (IF driver = "run_client_tests" THEN {SERVER_SCRIPT} ELSE Targets) :
         target' = t
    /\ before' = Snapshot
    /\ dpc' = "resolve"
    /\ n_connects' = n_connects + 1
    /\ last_op' = "connect_to_server"
    /\ conn_exc' = "none"
    /\ UNCHANGED <<driver, exit_stack, session, released, pending, n_cleanups,
                   n_queries>>
    /\ UNCHANGED <<server_params, handshakes>>
    /\ UNCHANGED <<qvars, hvars>>

\* Lines 24-33: the target is resolved, or ValueError raised.
ConnectResolve ==
    /\ dpc = "resolve"
    /\ IF ResolveTarget(target).exc # "none"
       THEN /\ ConnectFails(ResolveTarget(target).exc)
            /\ server_params' = Unbound
       ELSE /\ dpc' = "spawn"
            /\ server_params' = [command |-> ResolveTarget(target).command,
                                 args |-> ResolveTarget(target).args]
            /\ UNCHANGED <<conn_exc, pending>>
    /\ UNCHANGED <<driver, target, exit_stack, session, released, before, last_op,
                   n_connects, n_cleanups, n_queries, handshakes>>
    /\ UNCHANGED <<qvars, hvars>>

\* Lines 34-35: stdio_client is entered: the server process runs, and its
\* context is pushed on the exit stack.
ConnectSpawn ==
    /\ dpc = "spawn"
    /\ exit_stack' = Append(exit_stack, <<"stdio", n_connects>>)
    /\ released' = released @@ (<<"stdio", n_connects>> :> 0)
    /\ dpc' = "enter_session"
    /\ UNCHANGED <<driver, target, session, conn_exc, pending, before, last_op,
                   n_connects, n_cleanups, n_queries>>
    /\ UNCHANGED <<server_params, handshakes>>
    /\ UNCHANGED <<qvars, hvars>>

\* Line 34: the process cannot be started; nothing was entered.
ConnectSpawnFails ==
    /\ dpc = "spawn"
    /\ ConnectFails("TransportError")
    /\ UNCHANGED <<driver, target, exit_stack, session, released, before, last_op,
                   n_connects, n_cleanups, n_queries>>
    /\ UNCHANGED <<server_params, handshakes>>
    /\ UNCHANGED <<qvars, hvars>>

\* Lines 36-38: the ClientSession is entered, pushed and kept as
\* self.session.
ConnectEnterSession ==
    /\ dpc = "enter_session"
    /\ exit_stack' = Append(exit_stack, <<"session", n_connects>>)
    /\ released' = released @@ (<<"session", n_connects>> :> 0)
    /\ session' = <<"session", n_connects>>
    /\ dpc' = "initialize"
    /\ UNCHANGED <<driver, target, conn_exc, pending, before, last_op,
                   n_connects, n_cleanups, n_queries>>
    /\ UNCHANGED <<server_params, handshakes>>
    /\ UNCHANGED <<qvars, hvars>>

\* Line 39: the handshake.
ConnectInitialize ==
    /\ dpc = "initialize"
    /\ dpc' = "list_tools"
    /\ handshakes' = handshakes + 1
    /\ UNCHANGED <<driver, target, exit_stack, session, released, conn_exc,
                   pending, before, last_op, n_connects, n_cleanups, n_queries,
                   server_params>>
    /\ UNCHANGED <<qvars, hvars>>

\* Lines 40-41: the first list_tools; connect_to_server returns.
ConnectListTools ==
    /\ dpc = "list_tools"
    /\ dpc' = CASE driver = "async_main" -> "chat_loop"
                [] driver = "run_client_tests" -> "tests"
                [] OTHER -> "free"
    /\ UNCHANGED <<driver, target, exit_stack, session, released, conn_exc,
                   pending, before, last_op, n_connects, n_cleanups, n_queries>>
    /\ UNCHANGED <<server_params, handshakes>>
    /\ UNCHANGED <<qvars, hvars>>

\* Lines 39-40: the handshake or the first list_tools fails.
ConnectHandshakeFails ==
    /\ dpc \in {"initialize", "list_tools"}
    /\ ConnectFails("TransportError")
    /\ UNCHANGED <<driver, target, exit_stack, session, released, before, last_op,
                   n_connects, n_cleanups, n_queries>>
    /\ UNCHANGED <<server_params, handshakes>>
    /\ UNCHANGED <<qvars, hvars>>

\* The session of self.session is entered and not yet released.
SessionLive == session # NoSession /\ released[session] = 0

\* How process_query can end for its caller: it returns, it raises an
\* Exception, or the task is interrupted (a BaseException); without a live
\* session line 46 raises.
QueryOutcomes ==
    IF SessionLive THEN {"returned", "Exception", "KeyboardInterrupt"}
    ELSE {"Exception", "KeyboardInterrupt"}

\* One query of the driver.  chat_loop (client.py lines 115-131) and
\* run_single (test.py lines 90-122) catch Exception and go on; an
\* interrupt leaves chat_loop for the finally of async_main, and leaves
\* run_client_tests altogether.
DriverQuery ==
    /\ \/ dpc = "chat_loop" /\ n_queries < MaxChatQueries
       \/ dpc = "tests" /\ n_queries < NumTests
       \/ dpc = "free" /\ n_queries < MaxChatQueries
    /\ \E outcome \in QueryOutcomes :
         IF outcome = "KeyboardInterrupt" /\ driver # "any"
         THEN /\ pending' = outcome
              /\ dpc' = IF driver = "async_main" THEN "finally" ELSE "exit"
         ELSE UNCHANGED <<pending, dpc>>
    /\ n_queries' = n_queries + 1
    /\ last_op' = "process_query"
    /\ UNCHANGED <<driver, target, exit_stack, session, released, conn_exc, before,
                   n_connects, n_cleanups>>
    /\ UNCHANGED <<server_params, handshakes>>
    /\ UNCHANGED <<qvars, hvars>>

\* chat_loop ends on "quit" or "exit", client.py lines 117-118.
ChatQuit ==
    /\ dpc = "chat_loop"
    /\ dpc' = "finally"
    /\ UNCHANGED <<driver, target, exit_stack, session, released, conn_exc,
                   pending, before, last_op, n_connects, n_cleanups, n_queries>>
    /\ UNCHANGED <<server_params, handshakes>>
    /\ UNCHANGED <<qvars, hvars>>

\* aclose() that forgets to drop the contexts it has exited.
AClose_KeepsContexts(stack, rel) ==
    [exit_stack |-> stack,
     released |-> [r \in DOMAIN rel |->
                     IF \E k \in 1..Len(stack) : stack[k] = r
                     THEN rel[r] + 1 ELSE rel[r]]]

\* self.exit_stack.aclose(), client.py line 134: every context on the stack
\* is exited, last in first out, and the stack is left empty.
AClose(stack, rel) ==
    [exit_stack |-> <<>>,
     released |-> [r \in DOMAIN rel |->
                     IF \E k \in 1..Len(stack) : stack[k] = r
                     THEN rel[r] + 1 ELSE rel[r]]]

\* cleanup(), client.py lines 133-134: in the finally of async_main, after
\* the last test of run_client_tests (test.py lines 139-140), or whenever a
\* caller asks.
Cleanup ==
    /\ \/ driver = "async_main" /\ dpc = "finally"
       \/ driver = "run_client_tests" /\ dpc = "tests" /\ n_queries = NumTests
       \/ driver = "any" /\ dpc = "free" /\ n_cleanups < MaxCleanups
    /\ exit_stack' = AClose(exit_stack, released).exit_stack
    /\ released' = AClose(exit_stack, released).released
    /\ dpc' = IF driver = "any" THEN "free" ELSE "exit"
    /\ n_cleanups' = n_cleanups + 1
    /\ last_op' = "cleanup"
    /\ UNCHANGED <<driver, target, session, conn_exc, pending, before, n_connects,
                   n_queries>>
    /\ UNCHANGED <<server_params, handshakes>>
    /\ UNCHANGED <<qvars, hvars>>

\* The query variables of the lifecycle specification stay as constructed.
QIdle ==
    /\ QInit
    /\ client = "MCPClient"

ConnInit ==
    /\ QIdle
    /\ HIdle
    /\ driver \in {"async_main", "run_client_tests", "any"}
    /\ dpc = IF driver = "any" THEN "free" ELSE "start"
    /\ NewClient

ConnNext ==
    \/ CallConnect
    \/ ConnectResolve
    \/ ConnectSpawn
    \/ ConnectSpawnFails
    \/ ConnectEnterSession
    \/ ConnectInitialize
    \/ ConnectListTools
    \/ ConnectHandshakeFails
    \/ DriverQuery
    \/ ChatQuit
    \/ Cleanup

SpecConn == ConnInit /\ [][ConnNext]_vars


(***************************************************************************)
(* The schema translation alone, over every catalog up to MaxTools.        *)
(***************************************************************************)
SchemaInit ==
    /\ QInit
    /\ client = "MCPClient"
    /\ CIdle
    /\ HIdle

\* The query reaches list_tools, line 46.
SchemaBegin ==
    /\ client = "MCPClient"
    /\ BeginQuery

\* Lines 46-62 for any catalog of the provider.
MCPListAnyTools ==
    /\ ListToolsFrom(Catalogs)
    /\ UNCHANGED <<earlier, cvars, hvars>>

SchemaNext ==
    \/ SchemaBegin
    \/ MCPListAnyTools

SpecSchema == SchemaInit /\ [][SchemaNext]_vars

(***************************************************************************)
(* Properties of the lifecycle and of the schema translation.              *)
(***************************************************************************)
\* Neither the alias nor a path ending in ".py" or ".js".
Unsupported(t) == t # FsMcpServer /\ ~EndsWith(t, DotPy) /\ ~EndsWith(t, DotJs)

ToolRb == <<"t", "o", "o", "l", ".", "r", "b">>

\* C7: connect_to_server with an unsupported target has failed with
\* ValueError once it is past resolving the target, and the exit stack, the
\* session and the resources are as they were when it was called: nothing
\* was spawned, nothing pushed, and self.session was not set.
C7_UnsupportedTargetFailsEarly ==
    (last_op = "connect_to_server" /\ dpc # "resolve" /\ Unsupported(target)) =>
        /\ conn_exc = "ValueError"
        /\ Snapshot = before

\* "tool.rb" is refused by a client that a previous connect left with a
\* process and a session.
C7_Witness ==
    /\ last_op = "connect_to_server"
    /\ dpc # "resolve"
    /\ target = ToolRb
    /\ conn_exc = "ValueError"
    /\ n_connects = 2
    /\ Len(exit_stack) = 2

\* C8: when a driver has ended, every resource connect_to_server acquired
\* has been released exactly once.
C8_ReleasedOnEveryExit ==
    (driver \in {"async_main", "run_client_tests"} /\ dpc = "exit") =>
        \A r \in DOMAIN released : released[r] = 1

\* C9: no resource is ever released twice, and after cleanup, however the
\* calls before it went and however often it has run, the exit stack is
\* empty and every resource acquired has been released exactly once.
C9_CleanupIdempotent ==
    /\ \A r \in DOMAIN released : released[r] <= 1
    /\ last_op = "cleanup" =>
         /\ exit_stack = <<>>
         /\ \A r \in DOMAIN released : released[r] = 1

\* cleanup has run twice in a row after a connect that failed in the
\* handshake with the process running.
C9_Witness ==
    /\ last_op = "cleanup"
    /\ n_cleanups = 2
    /\ n_connects = 1
    /\ conn_exc = "TransportError"
    /\ DOMAIN released = {<<"stdio", 1>>, <<"session", 1>>}

\* C10: whatever the catalog, the translation does not fail, and gives one
\* declaration per descriptor, in order, with the descriptor's name and its
\* required list.
C10_TranslationTotal ==
    (client = "MCPClient" /\ pc \in {"generate", "raised"}) =>
        /\ exc = "none"
        /\ Len(tool_descs) = Len(catalog)
        /\ \A i \in 1..Len(catalog) :
             /\ tool_descs[i].name = catalog[i].name
             /\ tool_descs[i].parameters.required
                  = Get(catalog[i].inputSchema, "required", <<>>)

(***************************************************************************)
(* Properties of a query that fails, and of the order of its calls.        *)
(***************************************************************************)
\* C11: when the model service fails after a reply of this query was
\* counted, what process_query hands to its caller carries the usage
\* counted so far.
C11_PartialUsageReported ==
    (pc = "raised" /\ exc = "ClientError" /\ trips # <<>>) =>
        /\ out # Unbound
        /\ out.usage_metadata.prompt_token_count = SumPrompt(trips)
        /\ out.usage_metadata.response_token_count = SumCandidates(trips)

(***************************************************************************)
(* chat_loop of the three clients: client.py lines 112-131, client2.py     *)
(* lines 150-167, client3.py lines 45-59.  A line is a string character by *)
(* character.                                                              *)
(***************************************************************************)
\* str.lower() of one character.
Lower(c) ==
    CASE c = "Q" -> "q" [] c = "U" -> "u" [] c = "I" -> "i" [] c = "T" -> "t"
      [] c = "E" -> "e" [] c = "X" -> "x" [] OTHER -> c

\* str.lower().
LowerStr(s) == [i \in 1..Len(s) |-> Lower(s[i])]

\* The lines input() returns: the exit words in several cases and with
\* blanks around them, words that only begin like them, a query, nothing.
ChatLines ==
    { <<"q", "u", "i", "t">>,
      <<"Q", "u", "I", "T">>,
      <<" ", "e", "x", "i", "t", " ">>,
      <<"E", "X", "I", "T", "\t">>,
      <<"q", "u", "i", "t", "s">>,
      <<"e", "x", "i", "t", " ", "x">>,
      <<"h", "i">>,
      <<>> }

\* q.strip().lower() in ('quit', 'exit').
IsQuit(raw) ==
    LowerStr(Strip(raw)) \in {<<"q", "u", "i", "t">>, <<"e", "x", "i", "t">>}

\* chat_loop is entered on a client of one of the classes.
ChatInit ==
    /\ QInit
    /\ CIdle
    /\ ToolsIdle
    /\ HarnessIdle
    /\ line = NoLine
    /\ loop = "input"
    /\ shown = "none"
    /\ n_chat = 0

\* input() returns a line; the loop breaks on an exit word and calls
\* process_query otherwise.
ChatInput ==
    /\ loop = "input"
    /\ n_chat < MaxChatQueries
    /\ \E l \in ChatLines :
         /\ line' = l
         /\ loop' = IF IsQuit(l) THEN "left" ELSE "query"
    /\ n_chat' = n_chat + 1
    /\ UNCHANGED shown
    /\ UNCHANGED <<qvars, cvars, tvars, rvars>>

\* input() raises (end of input, an interrupt): no handler is around it.
ChatInputFails ==
    /\ loop = "input"
    /\ line' = NoLine
    /\ loop' = "crashed"
    /\ UNCHANGED <<shown, n_chat>>
    /\ UNCHANGED <<qvars, cvars, tvars, rvars>>

\* process_query returns: the text and the token counts are printed.
ChatAnswer ==
    /\ loop = "query"
    /\ shown' = "answer"
    /\ loop' = "input"
    /\ UNCHANGED <<line, n_chat>>
    /\ UNCHANGED <<qvars, cvars, tvars, rvars>>

\* process_query raises an Exception: MCPClient and GeminiClient print it
\* (client.py lines 130-131, client2.py lines 166-167); SimpleChatClient
\* has no try around line 53, and the exception leaves chat_loop.
ChatError ==
    /\ loop = "query"
    /\ IF client = "SimpleChatClient"
       THEN /\ shown' = "traceback"
            /\ loop' = "crashed"
       ELSE /\ shown' = "error"
            /\ loop' = "input"
    /\ UNCHANGED <<line, n_chat>>
    /\ UNCHANGED <<qvars, cvars, tvars, rvars>>

ChatNext ==
    \/ ChatInput
    \/ ChatInputFails
    \/ ChatAnswer
    \/ ChatError

SpecChat == ChatInit /\ [][ChatNext]_vars

\* C12: after a line that is no exit word the loop goes on: it is in
\* process_query or back at the prompt, whatever process_query raised.
C12_QueryErrorKeepsLoop ==
    (line # NoLine /\ ~IsQuit(line)) => loop \in {"query", "input"}

(***************************************************************************)
(* The order of the calls of one query.                                    *)
(***************************************************************************)
RECURSIVE CallNamesOfParts(_)
\* The names of the function calls of a list of parts, in order.
CallNamesOfParts(ps) ==
    IF ps = <<>> THEN <<>>
    ELSE (IF HasCall(Head(ps)) THEN <<Head(ps).function_call.name>> ELSE <<>>)
         \o CallNamesOfParts(Tail(ps))

RECURSIVE CallNamesOfCands(_)
\* The names of the function calls of a reply, in order.
CallNamesOfCands(cs) ==
    IF cs = <<>> THEN <<>>
    ELSE CallNamesOfParts(Head(cs).parts) \o CallNamesOfCands(Tail(cs))

\* C13: the calls of a query come one after the other.  A tool is called
\* only when the reply asking for it is in, and in the order of the reply;
\* while a tool call is out no model request is; the follow-up request is
\* made after the one tool call has returned, and carries its name and its
\* result.
C13_CallsAreSequential ==
    /\ calls # <<>> => trips # <<>>
    /\ Len(requests) = Len(trips)
    /\ (client = "MCPClient" /\ calls # <<>>) =>
         /\ Len(calls) <= Len(CallNamesOfCands(response.candidates))
         /\ \A i \in 1..Len(calls) :
              calls[i].name = CallNamesOfCands(response.candidates)[i]
    /\ (client = "MCPClient" /\ pc = "call_tool") =>
         /\ Len(trips) = 1
         /\ \A i \in 1..Len(calls) : calls[i].exc = "none"
    /\ (client = "GeminiClient" /\ calls # <<>>) =>
         /\ Len(calls) = 1
         /\ calls[1].name = msg.function_call.name
    /\ pc = "follow" =>
         /\ Len(trips) = 1
         /\ calls = <<Invocation(fname, "none", tool_result)>>
    /\ Len(requests) = 2 =>
         /\ Len(calls) = 1
         /\ calls[1].exc = "none"
         /\ requests[2].name = calls[1].name
         /\ requests[2].result = calls[1].result

\* GeminiClient has read in.txt and sent what it read in its follow-up.
C13_Witness ==
    /\ client = "GeminiClient"
    /\ pc = "done"
    /\ Len(requests) = 2
    /\ calls[1].name = "read_file"
    /\ requests[2].result = StrVal(<<"FOO">>)

(***************************************************************************)
(* Queries one after the other on one instance.                            *)
(***************************************************************************)
\* C14: the usage a query returns is that of its own replies, whatever the
\* earlier queries of the instance were told, and whether they returned or
\* raised: the counters are unbound as the query begins, and the result
\* carries the sums over this query's replies.
C14_UsageIsPerQuery ==
    earlier =>
        /\ pc \in {"list_tools", "generate"} =>
             /\ prompt_tokens = NoUsage
             /\ resp_tokens = NoUsage
             /\ trips = <<>>
        /\ pc = "done" =>
             /\ out.usage_metadata.prompt_token_count = SumPrompt(trips)
             /\ out.usage_metadata.response_token_count = SumCandidates(trips)

\* A query returns a usage of zero tokens after an earlier query of the
\* instance was told of some.
C14_Witness ==
    /\ earlier
    /\ pc = "done"
    /\ client \in {"MCPClient", "GeminiClient"}
    /\ out.usage_metadata = [prompt_token_count |-> 0, response_token_count |-> 0]

(***************************************************************************)
(* The order of handshake, queries and cleanup in the drivers.             *)
(***************************************************************************)
\* The transports entered and not yet released.
LiveTransports == {r \in DOMAIN released : r[1] = "stdio" /\ released[r] = 0}

\* C15: in async_main and in run_client_tests the client connects once and
\* shakes hands once; a query is only issued after the handshake, on a
\* session that is live, and before cleanup; once cleanup has run the
\* driver is at its end; and never are two transports live.
C15_HandshakeQueriesCleanup ==
    driver \in {"async_main", "run_client_tests"} =>
        /\ n_connects <= 1
        /\ handshakes <= 1
        /\ n_cleanups <= 1
        /\ n_queries > 0 => (handshakes = 1 /\ conn_exc = "none")
        /\ last_op = "process_query" => (SessionLive /\ n_cleanups = 0)
        /\ n_cleanups = 1 => dpc = "exit"
        /\ Cardinality(LiveTransports) <= 1

\* run_client_tests has run its five tests after one handshake, and has
\* cleaned up.
C15_Witness ==
    /\ driver = "run_client_tests"
    /\ dpc = "exit"
    /\ handshakes = 1
    /\ n_queries = NumTests
    /\ n_cleanups = 1
    /\ LiveTransports = {}

(***************************************************************************)
(* The local tools of client2.py called one after the other on one         *)
(* filesystem.                                                             *)
(***************************************************************************)
NewTxt == << <<"t", ".txt">> >>

\* The paths the tools are called with: a file that exists, one that does
\* not (also by another spelling), one in a new directory, one outside the
\* allowed base.
ToolPaths ==
    {InTxt, NewTxt, <<Dot, <<"t", ".txt">> >>, << <<"sub">>, <<"t", ".txt">> >>,
     Secret}

\* The contents written: plain text, and text that ends a line the way a
\* file from elsewhere does.
ToolContents == {<<"FOO">>, <<"a", "\r">>}

\* How many calls the history counts.
ToolCallsSoFar == IF tool_op = Unbound THEN 0 ELSE tool_op.n

\* What is kept of a call: the function, the resolved path, what was
\* passed, what the file held before, the filesystem it was called on, the
\* outcome, and where the entries are that a search selected.
ToolCall(op, p, content, o) ==
    [op |-> op,
     path |-> Resolve(p),
     content |-> content,
     existed |-> Resolve(p) \in DOMAIN fs,
     previous |-> IF Resolve(p) \in DOMAIN fs THEN fs[Resolve(p)] ELSE <<>>,
     fs_before |-> fs,
     exc |-> o.exc,
     value |-> o.value,
     found |-> IF op = "search_file" /\ o.exc = "none"
               THEN {ResolveFrom(<<>>, h) : h \in rglob(Resolve(p), <<"*">> \o content, fs)}
               ELSE {},
     n |-> ToolCallsSoFar + 1]

ToolsInit ==
    /\ QInit
    /\ client = "GeminiClient"
    /\ CIdle
    /\ ChatIdle
    /\ HarnessIdle
    /\ ToolsIdle

\* await write_file(file_path, content).
ToolWrite ==
    /\ ToolCallsSoFar < MaxToolCalls
    /\ \E p \in ToolPaths, c \in ToolContents :
         LET o == write_file(p, c, fs)
             was == IF Resolve(p) \in DOMAIN appended
                    THEN appended[Resolve(p)] ELSE <<>>
         IN  /\ fs' = o.fs
             /\ tool_op' = ToolCall("write_file", p, c, o)
             /\ appended' = IF o.exc = "none"
                            THEN [q \in DOMAIN appended \cup {Resolve(p)} |->
                                    IF q = Resolve(p) THEN Append(was, c)
                                    ELSE appended[q]]
                            ELSE appended
    /\ UNCHANGED <<client, pc, exc, catalog, tool_descs, response, ci, pi,
                   final_parts, prompt_tokens, resp_tokens, msg, fname,
                   tool_result, out, trips, toolReplies, calls, requests, first,
                   earlier>>
    /\ UNCHANGED <<cvars, chvars, rvars>>

\* await read_file(file_path).
ToolRead ==
    /\ ToolCallsSoFar < MaxToolCalls
    /\ \E p \in ToolPaths :
         tool_op' = ToolCall("read_file", p, <<>>, read_file(p, fs))
    /\ UNCHANGED appended
    /\ UNCHANGED <<qvars, cvars, chvars, rvars>>

\* await search_file(extension, search_dir), for two file endings and for
\* an extension that continues the pattern with path separators.
ToolSearch ==
    /\ ToolCallsSoFar < MaxToolCalls
    /\ \E d \in {<<Dot>>, <<DotDot>>},
          e \in {<<".txt">>, <<".py">>, <<"/", "..", "/", "..", "/", "secret">>} :
         tool_op' = ToolCall("search_file", d, e, search_file(e, d, fs))
    /\ UNCHANGED appended
    /\ UNCHANGED <<qvars, cvars, chvars, rvars>>

ToolsNext ==
    \/ ToolWrite
    \/ ToolRead
    \/ ToolSearch

SpecTools == ToolsInit /\ [][ToolsNext]_vars

\* C16: after write_file has returned, the file holds what it held before
\* (nothing, if it did not exist) followed by the content written.
C16_WriteAppends ==
    (tool_op # Unbound /\ tool_op.op = "write_file" /\ tool_op.exc = "none") =>
        fs[tool_op.path] = tool_op.previous \o tool_op.content

(***************************************************************************)
(* Properties of the tool calls of one reply.                              *)
(***************************************************************************)
\* C17: of the function calls of one reply at most one is executed: a
\* query has invoked no more tools than it has received replies.
C17_AtMostOneCallPerReply == Len(calls) <= Len(trips)

\* C18: turning a tool response into the tool result never fails: no tool
\* invocation of MCPClient ends in an exception of the client's own
\* reading of the response.
C18_ToolResultNeverFails ==
    client = "MCPClient" => \A i \in 1..Len(calls) : calls[i].exc # "IndexError"

(***************************************************************************)
(* Properties of the target resolution.                                    *)
(***************************************************************************)
\* C19: once connect_to_server is past resolving its target, exactly one
\* of the outcomes applies: the alias gives the command fs-mcp-server
\* without arguments; any other target ending in ".py" gives python with
\* the target as its argument; any other ending in ".js" gives node with
\* the target; everything else has raised ValueError and resolved to
\* nothing.
C19_TargetResolution ==
    (last_op = "connect_to_server" /\ dpc # "resolve") =>
        /\ target = FsMcpServer =>
             /\ server_params = [command |-> "fs-mcp-server", args |-> <<>>]
             /\ conn_exc # "ValueError"
        /\ (target # FsMcpServer /\ EndsWith(target, DotPy)) =>
             /\ server_params = [command |-> "python", args |-> <<target>>]
             /\ conn_exc # "ValueError"
        /\ (target # FsMcpServer /\ EndsWith(target, DotJs)) =>
             /\ server_params = [command |-> "node", args |-> <<target>>]
             /\ conn_exc # "ValueError"
        /\ Unsupported(target) =>
             /\ server_params = Unbound
             /\ conn_exc = "ValueError"

\* The alias with ".py" appended is a Python script, not the alias.
C19_Witness ==
    /\ last_op = "connect_to_server"
    /\ dpc = "spawn"
    /\ target = FsMcpServer \o DotPy
    /\ server_params = [command |-> "python", args |-> <<FsMcpServer \o DotPy>>]

(***************************************************************************)
(* The harness of test.py: run_single and run_client_tests.                *)
(***************************************************************************)
\* TESTS, test.py lines 46-80: the names, and which tests name a check_file.
TESTS ==
    << [name |-> "no_tool_hello", check_file |-> FALSE],
       [name |-> "list_py", check_file |-> FALSE],
       [name |-> "append_foo", check_file |-> TRUE],
       [name |-> "read_test", check_file |-> FALSE],
       [name |-> "create_add_script", check_file |-> TRUE] >>

\* The class run_client_tests finds in a module of CLIENT_MODULES, lines
\* 126-128.
ModuleOf(class) ==
    CASE class = "MCPClient" -> "client"
      [] class = "GeminiClient" -> "client2"
      [] OTHER -> "client3"

\* tokens: "-" or a sum.
Dash == [kind |-> "-"]
Tokens(n) == [kind |-> "int", n |-> n]

\* usage_metadata without counts (prompt_token_count is None).
NoCounts == [kind |-> "none"]

\* What os.remove(check_file) can do, lines 83-87.
Removals == {"removed", "FileNotFoundError", "PermissionError"}

\* How process_query can end: it returns a dict with a text (a str or
\* None) and a usage (with counts or without), or it raises a ClientError,
\* another Exception, or the task is interrupted.
QueryEnds ==
    [exc : {"none"}, text : {<<"a">>, None},
     usage : {[prompt_token_count |-> 1, response_token_count |-> 2], NoCounts}]
    \cup [exc : {"ClientError", "Exception", "KeyboardInterrupt"},
          text : {None}, usage : {NoCounts}]

\* What test["check"] can do: return something true or false, or raise.
CheckEnds == {"True", "False", "Exception"}

\* The record of lines 119-122.
ErrorRecord(test, e) ==
    [test |-> test.name, success |-> FALSE, time_s |-> "None", tokens |-> Dash,
     output |-> <<"ERROR: ", e>>]

\* run_single with nothing around process_query and the check.
run_single_NoHandler(test, removal, q, chk) ==
    IF test.check_file /\ removal = "PermissionError"
    THEN [exc |-> removal, thrown |-> "none", rec |-> Unbound]
    ELSE IF q.exc # "none"
    THEN [exc |-> q.exc, thrown |-> q.exc, rec |-> Unbound]
    ELSE IF chk = "Exception" \/ q.text = None
    THEN [exc |-> "Exception", thrown |-> "Exception", rec |-> Unbound]
    ELSE [exc |-> "none", thrown |-> "none",
          rec |-> [test |-> test.name, success |-> (chk = "True"),
                   time_s |-> "elapsed",
                   tokens |-> IF q.usage = NoCounts THEN Dash
                              ELSE Tokens(q.usage.prompt_token_count
                                          + q.usage.response_token_count),
                   output |-> q.text]]

\* run_single, test.py lines 82-122: the exception that leaves it (or
\* "none"), what the query or the check raised inside the try (or "none"),
\* and the record returned.  A text of None fails at len(text), line 116.
run_single(test, removal, q, chk) ==
    IF test.check_file /\ removal = "PermissionError"
    THEN [exc |-> removal, thrown |-> "none", rec |-> Unbound]
    ELSE IF q.exc = "KeyboardInterrupt"
    THEN [exc |-> q.exc, thrown |-> q.exc, rec |-> Unbound]
    ELSE IF q.exc # "none"
    THEN [exc |-> "none", thrown |-> q.exc, rec |-> ErrorRecord(test, q.exc)]
    ELSE IF chk = "Exception"
    THEN [exc |-> "none", thrown |-> "Exception",
          rec |-> ErrorRecord(test, "Exception")]
    ELSE IF q.text = None
    THEN [exc |-> "none", thrown |-> "TypeError",
          rec |-> ErrorRecord(test, "TypeError")]
    ELSE [exc |-> "none", thrown |-> "none",
          rec |-> [test |-> test.name, success |-> (chk = "True"),
                   time_s |-> "elapsed",
                   tokens |-> IF q.usage = NoCounts THEN Dash
                              ELSE Tokens(q.usage.prompt_token_count
                                          + q.usage.response_token_count),
                   output |-> q.text]]

\* run_client_tests(module_name) is entered, lines 124-129.
HarnessInit ==
    /\ QInit
    /\ CIdle
    /\ ChatIdle
    /\ ToolsIdle
    /\ module = ModuleOf(client)
    /\ hpc = "connect"
    /\ test_i = 0
    /\ results = <<>>
    /\ thrown = <<>>
    /\ left_by = "none"

\* Lines 130-131: connect_to_server, where the client has one; what it
\* raises leaves run_client_tests.
HarnessConnect ==
    /\ hpc = "connect"
    /\ \E outcome \in (IF client = "MCPClient" THEN {"none", "TransportError"}
                       ELSE {"none"}) :
         IF outcome = "none"
         THEN /\ hpc' = "tests"
              /\ UNCHANGED left_by
         ELSE /\ hpc' = "raised"
              /\ left_by' = "connect_to_server"
    /\ UNCHANGED <<module, test_i, results, thrown>>
    /\ UNCHANGED <<qvars, cvars, chvars, tvars>>

\* Lines 134-137: the next test; its record is tagged with the module and
\* appended.
HarnessTest ==
    /\ hpc = "tests"
    /\ test_i < Len(TESTS)
    /\ \E removal \in Removals, q \in QueryEnds, chk \in CheckEnds :
         LET r == run_single(TESTS[test_i + 1], removal, q, chk)
         IN  IF r.exc # "none"
             THEN /\ hpc' = "raised"
                  /\ left_by' = IF r.thrown = "none" THEN "os.remove" ELSE r.exc
                  /\ UNCHANGED <<test_i, results, thrown>>
             ELSE /\ results' = Append(results,
                                       [test |-> r.rec.test,
                                        success |-> r.rec.success,
                                        time_s |-> r.rec.time_s,
                                        tokens |-> r.rec.tokens,
                                        output |-> r.rec.output,
                                        client |-> module])
                  /\ thrown' = Append(thrown, r.thrown)
                  /\ test_i' = test_i + 1
                  /\ UNCHANGED <<hpc, left_by>>
    /\ UNCHANGED module
    /\ UNCHANGED <<qvars, cvars, chvars, tvars>>

\* Lines 139-141: cleanup, where the client has one, and the results are
\* returned.
HarnessCleanup ==
    /\ hpc = "tests"
    /\ test_i = Len(TESTS)
    /\ hpc' = "returned"
    /\ UNCHANGED <<module, test_i, results, thrown, left_by>>
    /\ UNCHANGED <<qvars, cvars, chvars, tvars>>

HarnessNext ==
    \/ HarnessConnect
    \/ HarnessTest
    \/ HarnessCleanup

SpecHarness == HarnessInit /\ [][HarnessNext]_vars

\* C20: no Exception of a test's query or check leaves run_single: the
\* test gets a record with success False, time_s None and tokens "-", and
\* the next test runs.  The records are those of TESTS, in order, one per
\* test run, each tagged with the module; run_client_tests returns with
\* one record per test; and it is only left without returning by what
\* connect_to_server raised, by os.remove, or by an interrupt.
C20_RunSingleNeverPropagates ==
    /\ Len(results) = test_i
    /\ Len(thrown) = test_i
    /\ \A i \in 1..Len(results) :
         /\ results[i].test = TESTS[i].name
         /\ results[i].client = module
         /\ thrown[i] # "none" =>
              /\ results[i].success = FALSE
              /\ results[i].time_s = "None"
              /\ results[i].tokens = Dash
    /\ hpc = "returned" => Len(results) = NumTests
    /\ hpc = "raised" => left_by \in {"connect_to_server", "os.remove", "KeyboardInterrupt"}

\* run_client_tests has returned five records although the first test's
\* query raised a ClientError and the second another Exception.
C20_Witness ==
    /\ hpc = "returned"
    /\ Len(results) = 5
    /\ thrown[1] = "ClientError"
    /\ thrown[2] = "Exception"
    /\ results[3].success

(***************************************************************************)
(* Properties of the confinement of the local tools to ALLOWED_BASE.       *)
(***************************************************************************)
\* The files that differ between two filesystems.
ChangedFiles(old, new) ==
    {q \in DOMAIN old \cup DOMAIN new :
        \/ q \notin DOMAIN old
        \/ q \notin DOMAIN new
        \/ old[q] # new[q]}

\* A call whose path argument resolves outside ALLOWED_BASE has raised
\* PermissionError, has returned nothing and has left every file as it was.
C21_OutsidePathRefused ==
    (tool_op # Unbound /\ ~IsRelativeTo(tool_op.path, ALLOWED_BASE)) =>
        /\ tool_op.exc = "PermissionError"
        /\ tool_op.value = NoVal
        /\ fs = tool_op.fs_before

\* Whatever a call has created or rewritten lies inside ALLOWED_BASE.
C21_WritesInside ==
    tool_op # Unbound =>
        \A q \in ChangedFiles(tool_op.fs_before, fs) : IsRelativeTo(q, ALLOWED_BASE)

\* Whatever entries a search has looked up and returned lie inside
\* ALLOWED_BASE.
C21_FoundInside ==
    tool_op # Unbound =>
        \A q \in tool_op.found : IsRelativeTo(q, ALLOWED_BASE)

\* C21: read_file, write_file and search_file touch the filesystem only
\* for paths that resolve inside ALLOWED_BASE: a call with a path resolving
\* outside it has raised PermissionError with the filesystem unchanged, and
\* nothing a call has written or found lies outside it.
C21_ConfinedToAllowedBase ==
    /\ C21_OutsidePathRefused
    /\ C21_WritesInside
    /\ C21_FoundInside

\* A search below the working directory has selected the file outside it.
C21_SearchEscapes ==
    /\ tool_op # Unbound
    /\ tool_op.op = "search_file"
    /\ tool_op.path = ALLOWED_BASE
    /\ tool_op.exc = "none"
    /\ << <<"secret">> >> \in tool_op.found

=============================================================================
